---- MODULE Spec2Model ----
(***************************************************************************)
(* Model of the tile loaders of emap (src/src/tile_loader.rs):             *)
(* TokioTileLoader and CachingTileLoader.  A loader owns a table           *)
(* HashMap<TileId, Fetch> behind a Mutex, the sending half of a bounded    *)
(* mpsc channel and a worker thread that runs a tokio runtime, receives    *)
(* the requests and spawns one task ("pipeline") per request received.     *)
(* The second part models the tile arithmetic of src/src/lib.rs (TileId,   *)
(* from_bounds, zoom_out_with_uv) over exact fixed-point numbers.          *)
(***************************************************************************)
EXTENDS Integers, Sequences, FiniteSets, TLC

(* ---------------- bounds of the model ---------------- *)

\* number of distinct TileIds the callers ask for
NumTiles == 2
\* number of threads that call TileLoader::tile
NumCallers == 1
\* total number of TileLoader::tile calls in a run
MaxCalls == 3
\* capacity of the mpsc channel; the program uses channel(1024), the model a
\* small capacity so that a full channel is reached within MaxCalls calls
ChannelCapacity == 1

Tiles == 1..NumTiles
Callers == 1..NumCallers

(* ---------------- values ---------------- *)

\* enum Fetch { Pending, Done(Arc<ColorImage>) }; st = "None" is the absence
\* of an entry in the HashMap
NoEntry == [st |-> "None", img |-> "-"]
Pending == [st |-> "Pending", img |-> "-"]
Done(r) == [st |-> "Done", img |-> r]

\* contents of a file or of a response body: two different images, bytes that
\* are no image, and the truncated file that File::create leaves before the
\* bytes are written
Bytes == {"imgA", "imgB", "junk", "partial"}

\* image::load_from_memory(..) followed by the conversion to a ColorImage:
\* the raster of the bytes, or "err" for load_from_memory(..).unwrap() panicking
Decode(b) ==
    CASE b = "imgA" -> "rasA"
      [] b = "imgB" -> "rasB"
      [] OTHER -> "err"

\* what client.get(url).send().await and r.bytes().await give: a transport
\* error (the unwrap panics), or a status and a body
Responses ==
    {[status |-> "err", body |-> "-"]}
    \cup [status : {"ok", "bad"}, body : {"imgB", "junk"}]

\* a spawned task before its first step
NewPipe(t, k) ==
    [tile |-> t,
     pc |-> IF k = "caching" THEN "metadata" ELSE "fetch",
     status |-> "-", bytes |-> "-", img |-> "-", wrote |-> FALSE,
     repaints |-> 0, why |-> "-"]

VARIABLES
    kind,       \* "tokio" (TokioTileLoader) or "caching" (CachingTileLoader)
    tiles,      \* the table: tiles[t] is NoEntry, Pending or Done(r)
    lock,       \* holder of the table Mutex: 0 = free, else the caller
    poisoned,   \* the Mutex is poisoned (a thread panicked holding the guard)
    queue,      \* requests in the channel, oldest first
    closed,     \* the receiver of the channel has been dropped
    wpc,        \* worker: "start", "recv", "insert", "dead"
    wtile,      \* the tile of the request the worker has received
    pipes,      \* the tasks spawned so far, in spawn order
    disk,       \* cache directory: disk[t] is "none" or the bytes of the file
    disk0,      \* the cache directory when the loader was constructed
    cpc,        \* caller: "idle", "send" (inside blocking_send), "panicked"
    ctile,      \* the tile of the caller's current or last call
    cres,       \* result of the caller's last call: "-", "None", a raster
    ncalls,     \* ncalls[c]: number of tile() calls caller c has made
    sent,       \* sent[t]: number of requests for t put into the channel
    got,        \* got[t]: the raster of the first Some(..) returned for t
    old,        \* the Loader dropped before this one: how its tiles failed
    \* ---- src/src/lib.rs ----
    op,         \* what the state holds: "loader", "tile" or "from_bounds"
    tile0,      \* the TileId the tile functions are applied to
    zo,         \* zoom_out_with_uv applied zo.k times to tile0: tile and uv
    nb,         \* top_left_normalized and bottom_right_normalized of tile0
    fb,         \* a call of TileId::from_bounds: arguments and result
    st,         \* the stored EMapState: x, y, zoom
    stored,     \* an EMapState is stored in the Context under the widget's id
    reg,        \* the keys of EMapState::registered_tile_textures
    fth,        \* the find_texture_handle calls of the last frame
    ev          \* the last call on the widget, its inputs, the number of frames

loaderVars == <<kind, tiles, lock, poisoned, queue, closed, wpc, wtile, pipes,
                disk, disk0, cpc, ctile, cres, ncalls, sent, got, old>>

widgetVars == <<st, stored, reg, fth, ev>>

libVars == <<op, tile0, zo, nb, fb, widgetVars>>

vars == <<loaderVars, libVars>>

callerVars == <<cpc, ctile, cres, ncalls, got>>

RECURSIVE SumCalls(_)
SumCalls(S) ==
    IF S = {} THEN 0
    ELSE LET c == CHOOSE x \in S : TRUE IN ncalls[c] + SumCalls(S \ {c})

\* the number of tile() calls made so far, over all callers
TotalCalls == SumCalls(Callers)
workerVars == <<wpc, wtile>>

\* no Loader was dropped before this one
NoLoader == [dropped |-> FALSE, failed |-> [t \in Tiles |-> "-"]]

\* the loader right after TokioTileLoader::new / CachingTileLoader::new
LoaderInit ==
    /\ kind \in {"tokio", "caching"}
    /\ tiles = [t \in Tiles |-> NoEntry]
    /\ lock = 0
    /\ poisoned = FALSE
    /\ queue = <<>>
    /\ closed = FALSE
    /\ wpc = "start"
    /\ wtile = 0
    /\ pipes = <<>>
    /\ disk \in [Tiles -> {"none", "imgA", "junk"}]
    /\ disk0 = disk
    /\ cpc = [c \in Callers |-> "idle"]
    /\ ctile = [c \in Callers |-> 0]
    /\ cres = [c \in Callers |-> "-"]
    /\ ncalls = [c \in Callers |-> 0]
    /\ sent = [t \in Tiles |-> 0]
    /\ got = [t \in Tiles |-> "-"]
    /\ old = NoLoader

\* no computation of lib.rs is part of the state
LibIdle ==
    /\ op = "loader"
    /\ tile0 = "-"
    /\ zo = "-"
    /\ nb = "-"
    /\ fb = "-"
    /\ st = "-"
    /\ stored = FALSE
    /\ reg = {}
    /\ fth = "-"
    /\ ev = "-"

Init == LoaderInit /\ LibIdle

(* ---------------- the worker thread ---------------- *)

\* Runtime::new().unwrap() and ClientBuilder::default().build().unwrap()
\* succeed: the thread enters the receive loop
RuntimeOk ==
    /\ wpc = "start"
    /\ wpc' = "recv"
    /\ UNCHANGED <<libVars, old, kind, tiles, lock, poisoned, queue, closed, wtile, pipes,
                   disk, disk0, callerVars, sent>>

\* one of the two unwraps panics: the thread ends and rx is dropped with it
RuntimeFail ==
    /\ wpc = "start"
    /\ wpc' = "dead"
    /\ closed' = TRUE
    /\ queue' = <<>>
    /\ UNCHANGED <<libVars, old, kind, tiles, lock, poisoned, wtile, pipes,
                   disk, disk0, callerVars, sent>>

\* rx.recv().await gives the oldest request
Recv ==
    /\ wpc = "recv"
    /\ queue # <<>>
    /\ wtile' = Head(queue)
    /\ queue' = Tail(queue)
    /\ wpc' = "insert"
    /\ UNCHANGED <<libVars, old, kind, tiles, lock, poisoned, closed, pipes,
                   disk, disk0, callerVars, sent>>

\* ts.lock().unwrap().insert(tile_id, Fetch::Pending) and tokio::spawn(..)
InsertPending ==
    /\ wpc = "insert"
    /\ lock = 0
    /\ IF poisoned
         THEN /\ wpc' = "dead"
              /\ closed' = TRUE
              /\ queue' = <<>>
              /\ UNCHANGED <<tiles, pipes>>
         ELSE /\ tiles' = [tiles EXCEPT ![wtile] = Pending]
              /\ pipes' = Append(pipes, NewPipe(wtile, kind))
              /\ wpc' = "recv"
              /\ UNCHANGED <<closed, queue>>
    /\ UNCHANGED <<libVars, old, kind, lock, poisoned, wtile, disk, disk0, callerVars, sent>>

(* ---------------- TileLoader::tile ---------------- *)

\* tile() without the arm Some(Fetch::Pending) => None: a tile that is
\* Pending is requested again
TileResend(c, t) ==
    /\ cpc[c] = "idle"
    /\ TotalCalls < MaxCalls
    /\ lock = 0
    /\ ncalls' = [ncalls EXCEPT ![c] = @ + 1]
    /\ ctile' = [ctile EXCEPT ![c] = t]
    /\ IF poisoned
         THEN /\ cpc' = [cpc EXCEPT ![c] = "panicked"]
              /\ cres' = [cres EXCEPT ![c] = "panic"]
              /\ UNCHANGED <<lock, got>>
         ELSE CASE tiles[t].st = "Done" ->
                     /\ cres' = [cres EXCEPT ![c] = tiles[t].img]
                     /\ got' = [got EXCEPT ![t] = IF @ = "-" THEN tiles[t].img ELSE @]
                     /\ UNCHANGED <<cpc, lock>>
                [] OTHER ->
                     /\ cpc' = [cpc EXCEPT ![c] = "send"]
                     /\ lock' = c
                     /\ cres' = [cres EXCEPT ![c] = "-"]
                     /\ UNCHANGED got
    /\ UNCHANGED <<libVars, old, kind, tiles, poisoned, queue, closed, workerVars, pipes,
                   disk, disk0, sent>>

\* self.tiles.lock().unwrap() and the match on t.get(tile_id); the arm None
\* goes on to blocking_send with the guard t still alive
Tile(c, t) ==
    /\ cpc[c] = "idle"
    /\ TotalCalls < MaxCalls
    /\ lock = 0
    /\ ncalls' = [ncalls EXCEPT ![c] = @ + 1]
    /\ ctile' = [ctile EXCEPT ![c] = t]
    /\ IF poisoned
         THEN /\ cpc' = [cpc EXCEPT ![c] = "panicked"]
              /\ cres' = [cres EXCEPT ![c] = "panic"]
              /\ UNCHANGED <<lock, got>>
         ELSE CASE tiles[t].st = "Pending" ->
                     /\ cres' = [cres EXCEPT ![c] = "None"]
                     /\ UNCHANGED <<cpc, lock, got>>
                [] tiles[t].st = "Done" ->
                     /\ cres' = [cres EXCEPT ![c] = tiles[t].img]
                     /\ got' = [got EXCEPT ![t] = IF @ = "-" THEN tiles[t].img ELSE @]
                     /\ UNCHANGED <<cpc, lock>>
                [] OTHER ->
                     /\ cpc' = [cpc EXCEPT ![c] = "send"]
                     /\ lock' = c
                     /\ cres' = [cres EXCEPT ![c] = "-"]
                     /\ UNCHANGED got
    /\ UNCHANGED <<libVars, old, kind, tiles, poisoned, queue, closed, workerVars, pipes,
                   disk, disk0, sent>>

\* self.tx.blocking_send((*tile_id, url, ctx)).unwrap(); None: waits while the
\* channel is full, panics (poisoning the Mutex whose guard is alive) when
\* the receiver is gone, else enqueues, returns None and drops the guard
BlockingSend(c) ==
    /\ cpc[c] = "send"
    /\ IF closed
         THEN /\ cpc' = [cpc EXCEPT ![c] = "panicked"]
              /\ cres' = [cres EXCEPT ![c] = "panic"]
              /\ poisoned' = TRUE
              /\ UNCHANGED <<queue, sent>>
         ELSE /\ Len(queue) < ChannelCapacity
              /\ queue' = Append(queue, ctile[c])
              /\ sent' = [sent EXCEPT ![ctile[c]] = @ + 1]
              /\ cpc' = [cpc EXCEPT ![c] = "idle"]
              /\ cres' = [cres EXCEPT ![c] = "None"]
              /\ UNCHANGED poisoned
    /\ lock' = 0
    /\ UNCHANGED <<libVars, old, kind, tiles, closed, workerVars, pipes, disk, disk0,
                   ctile, ncalls, got>>

(* ---------------- the spawned task of one request ---------------- *)

Running(i) == i \in 1..Len(pipes) /\ wpc # "dead"

SetPipe(i, p) == pipes' = [pipes EXCEPT ![i] = p]

\* tokio::fs::metadata(&path).await.is_ok()
Metadata(i) ==
    /\ Running(i)
    /\ pipes[i].pc = "metadata"
    /\ SetPipe(i, [pipes[i] EXCEPT
                     !.pc = IF disk[pipes[i].tile] # "none" THEN "read" ELSE "fetch"])
    /\ UNCHANGED <<libVars, old, kind, tiles, lock, poisoned, queue, closed, workerVars,
                   disk, disk0, callerVars, sent>>

\* tokio::fs::read(&path).await.unwrap(): the bytes in the file now, or a panic
ReadFile(i) ==
    /\ Running(i)
    /\ pipes[i].pc = "read"
    /\ \E ok \in BOOLEAN :
         SetPipe(i, IF ok
                      THEN [pipes[i] EXCEPT !.pc = "decode",
                                            !.bytes = disk[pipes[i].tile]]
                      ELSE [pipes[i] EXCEPT !.pc = "failed"])
    /\ UNCHANGED <<libVars, old, kind, tiles, lock, poisoned, queue, closed, workerVars,
                   disk, disk0, callerVars, sent>>

\* the caching loader without the status.is_success() gate: the body of any
\* response is written to the cache
AfterFetchNoGate(k, r) ==
    CASE r.status = "err" -> "failed"
      [] k = "tokio" -> "decode"
      [] OTHER -> "write"

\* where a task goes with the response r: TokioTileLoader decodes whatever
\* it gets, CachingTileLoader only goes on if status.is_success()
AfterFetch(k, r) ==
    CASE r.status = "err" -> "failed"
      [] k = "tokio" -> "decode"
      [] r.status = "ok" -> "write"
      [] OTHER -> "abandoned"

\* client.get(url)...send().await.unwrap(); r.status(); r.bytes().await.unwrap()
FetchNet(i) ==
    /\ Running(i)
    /\ pipes[i].pc = "fetch"
    /\ \E r \in Responses :
         SetPipe(i, [pipes[i] EXCEPT !.pc = AfterFetch(kind, r),
                                     !.status = r.status,
                                     !.bytes = r.body])
    /\ UNCHANGED <<libVars, old, kind, tiles, lock, poisoned, queue, closed, workerVars,
                   disk, disk0, callerVars, sent>>

\* create_dir_all(&dir).await.unwrap() and the File::create half of
\* tokio::fs::write: the file exists and is empty; or one of them fails
WriteBegin(i) ==
    /\ Running(i)
    /\ pipes[i].pc = "write"
    /\ \E ok \in BOOLEAN :
         IF ok
           THEN /\ SetPipe(i, [pipes[i] EXCEPT !.pc = "writing", !.wrote = TRUE])
                /\ disk' = [disk EXCEPT ![pipes[i].tile] = "partial"]
           ELSE /\ SetPipe(i, [pipes[i] EXCEPT !.pc = "failed"])
                /\ UNCHANGED disk
    /\ UNCHANGED <<libVars, old, kind, tiles, lock, poisoned, queue, closed, workerVars,
                   disk0, callerVars, sent>>

\* the write_all half of tokio::fs::write: the file holds the bytes; or the
\* write fails and the unwrap panics
WriteEnd(i) ==
    /\ Running(i)
    /\ pipes[i].pc = "writing"
    /\ \E ok \in BOOLEAN :
         IF ok
           THEN /\ SetPipe(i, [pipes[i] EXCEPT !.pc = "decode"])
                /\ disk' = [disk EXCEPT ![pipes[i].tile] = pipes[i].bytes]
           ELSE /\ SetPipe(i, [pipes[i] EXCEPT !.pc = "failed"])
                /\ UNCHANGED disk
    /\ UNCHANGED <<libVars, old, kind, tiles, lock, poisoned, queue, closed, workerVars,
                   disk0, callerVars, sent>>

\* the blocking task calling ctx.request_repaint() as soon as the image is
\* decoded, before the insert of Fetch::Done
DecodeThenRepaint(i) ==
    /\ i \in 1..Len(pipes) /\ wpc # "dead"
    /\ pipes[i].pc = "decode"
    /\ pipes' = [pipes EXCEPT ![i] =
                   IF Decode(pipes[i].bytes) = "err"
                     THEN [pipes[i] EXCEPT !.pc = "failed", !.why = "decode"]
                     ELSE [pipes[i] EXCEPT !.pc = "publish",
                                           !.img = Decode(pipes[i].bytes),
                                           !.repaints = @ + 1]]
    /\ UNCHANGED <<libVars, old, kind, tiles, lock, poisoned, queue, closed, workerVars,
                   disk, disk0, callerVars, sent>>

\* the decode done with the table locked: load_from_memory(..).unwrap()
\* panics holding the guard and poisons the Mutex
DecodeUnderLock(i) ==
    /\ i \in 1..Len(pipes) /\ wpc # "dead"
    /\ pipes[i].pc = "decode"
    /\ lock = 0
    /\ IF Decode(pipes[i].bytes) = "err"
         THEN /\ pipes' = [pipes EXCEPT ![i] =
                             [pipes[i] EXCEPT !.pc = "failed", !.why = "decode"]]
              /\ poisoned' = TRUE
         ELSE /\ pipes' = [pipes EXCEPT ![i] =
                             [pipes[i] EXCEPT !.pc = "publish",
                                              !.img = Decode(pipes[i].bytes)]]
              /\ UNCHANGED poisoned
    /\ UNCHANGED <<libVars, old, kind, tiles, lock, queue, closed, workerVars,
                   disk, disk0, callerVars, sent>>

\* spawn_blocking: image::load_from_memory(&b).unwrap() .. from_rgba_unmultiplied;
\* a panic ends the blocking task only
DecodeImage(i) ==
    /\ Running(i)
    /\ pipes[i].pc = "decode"
    /\ SetPipe(i, IF Decode(pipes[i].bytes) = "err"
                    THEN [pipes[i] EXCEPT !.pc = "failed", !.why = "decode"]
                    ELSE [pipes[i] EXCEPT !.pc = "publish",
                                          !.img = Decode(pipes[i].bytes)])
    /\ UNCHANGED <<libVars, old, kind, tiles, lock, poisoned, queue, closed, workerVars,
                   disk, disk0, callerVars, sent>>

\* the insert of Done by a loader that keeps one tile: it drops the entries
\* of the other tiles
PublishEvicts(i) ==
    /\ Running(i)
    /\ pipes[i].pc = "publish"
    /\ lock = 0
    /\ IF poisoned
         THEN /\ SetPipe(i, [pipes[i] EXCEPT !.pc = "failed"])
              /\ UNCHANGED tiles
         ELSE /\ SetPipe(i, [pipes[i] EXCEPT !.pc = "repaint"])
              /\ tiles' = [t \in Tiles |-> IF t = pipes[i].tile
                                           THEN Done(pipes[i].img) ELSE NoEntry]
    /\ UNCHANGED <<libVars, old, kind, lock, poisoned, queue, closed, workerVars,
                   disk, disk0, callerVars, sent>>

\* ts.lock().unwrap().insert(tile_id, Fetch::Done(color_image.into()))
Publish(i) ==
    /\ Running(i)
    /\ pipes[i].pc = "publish"
    /\ lock = 0
    /\ IF poisoned
         THEN /\ SetPipe(i, [pipes[i] EXCEPT !.pc = "failed"])
              /\ UNCHANGED tiles
         ELSE /\ SetPipe(i, [pipes[i] EXCEPT !.pc = "repaint"])
              /\ tiles' = [tiles EXCEPT ![pipes[i].tile] = Done(pipes[i].img)]
    /\ UNCHANGED <<libVars, old, kind, lock, poisoned, queue, closed, workerVars,
                   disk, disk0, callerVars, sent>>

\* ctx.request_repaint()
Repaint(i) ==
    /\ Running(i)
    /\ pipes[i].pc = "repaint"
    /\ SetPipe(i, [pipes[i] EXCEPT !.pc = "done", !.repaints = @ + 1])
    /\ UNCHANGED <<libVars, old, kind, tiles, lock, poisoned, queue, closed, workerVars,
                   disk, disk0, callerVars, sent>>

PipeStep(i) ==
    \/ Metadata(i)
    \/ ReadFile(i)
    \/ FetchNet(i)
    \/ WriteBegin(i)
    \/ WriteEnd(i)
    \/ DecodeImage(i)
    \/ Publish(i)
    \/ Repaint(i)

Next ==
    \/ RuntimeOk
    \/ RuntimeFail
    \/ Recv
    \/ InsertPending
    \/ \E c \in Callers, t \in Tiles : Tile(c, t)
    \/ \E c \in Callers : BlockingSend(c)
    \/ \E i \in 1..MaxCalls : PipeStep(i)

Spec == Init /\ [][Next]_vars

\* the worker thread, the runtime's tasks and a caller inside blocking_send
\* are all scheduled; nobody is obliged to call tile()
Fairness ==
    /\ WF_vars(RuntimeOk \/ RuntimeFail)
    /\ WF_vars(Recv)
    /\ WF_vars(InsertPending)
    /\ \A c \in Callers : WF_vars(BlockingSend(c))
    /\ \A i \in 1..MaxCalls : WF_vars(PipeStep(i))

FairSpec == Spec /\ Fairness

TypeOK ==
    /\ kind \in {"tokio", "caching"}
    /\ \A t \in Tiles : tiles[t].st \in {"None", "Pending", "Done"}
    /\ lock \in {0} \cup Callers
    /\ Len(queue) <= ChannelCapacity
    /\ Len(pipes) <= MaxCalls

(* ---------------- derived quantities ---------------- *)

PipesOf(t) == {i \in 1..Len(pipes) : pipes[i].tile = t}

\* the tasks of t that have issued the GET
NetFetches(t) == {i \in PipesOf(t) : pipes[i].status # "-"}

\* the tasks of t that have opened the cache file for writing
Writers(t) == {i \in PipesOf(t) : pipes[i].wrote}

\* the tasks of t that have inserted Done
Published(t) == {i \in PipesOf(t) : pipes[i].pc \in {"repaint", "done"}}

\* caller c returns from a call for tile t in this step
Returns(c, t) ==
    /\ cpc'[c] = "idle"
    /\ ctile'[c] = t
    /\ (ncalls'[c] # ncalls[c] \/ cpc[c] = "send")

(* ---------------- claims ---------------- *)

\* C1: each TileId has at most one request enqueued and at most one fetch
\* pipeline started in the lifetime of a loader.
C1_OnePipelinePerTile ==
    \A t \in Tiles : sent[t] <= 1 /\ Cardinality(PipesOf(t)) <= 1

\* C2: a table entry that is Done(r) stays Done(r) in every later state, and
\* once a call for a tile has returned Some(r), every later call for it
\* returns Some(r).
C2_DoneIsFinal ==
    [][\A t \in Tiles :
         /\ tiles[t].st = "Done" => tiles'[t] = tiles[t]
         /\ \A c \in Callers :
              (got[t] # "-" /\ Returns(c, t)) => cres'[c] = got[t]]_vars

\* C3: no reachable state has a caller waiting inside blocking_send on a full
\* channel with the table lock held while the worker, holding a received
\* request, waits for that lock.
C3_NoCallerWorkerDeadlock ==
    ~ \E c \in Callers :
        /\ cpc[c] = "send"
        /\ lock = c
        /\ ~closed
        /\ Len(queue) = ChannelCapacity
        /\ wpc = "insert"

\* C4: right after a call for a tile without an entry returns None, the table
\* holds Pending for the tile and exactly one request for it has been enqueued.
C4_PendingSetInCall ==
    [][\A c \in Callers :
         (cpc[c] = "send" /\ cpc'[c] = "idle")
            => /\ tiles'[ctile[c]] = Pending
               /\ sent'[ctile[c]] = 1]_vars

\* C5: a call for a tile whose entry is Done(r) returns r, a call for a tile
\* whose entry is Pending returns None, and either call leaves the table, the
\* channel, the tasks and the cache directory unchanged.
C5_HitIsReadOnly ==
    [][\A c \in Callers, t \in Tiles :
         (ncalls'[c] # ncalls[c] /\ ctile'[c] = t
            /\ ~poisoned /\ tiles[t].st # "None")
            => /\ cres'[c] = IF tiles[t].st = "Done" THEN tiles[t].img ELSE "None"
               /\ cpc'[c] = "idle"
               /\ UNCHANGED <<tiles, queue, sent, pipes, disk, lock>>]_vars

\* a call has returned the raster of a Done entry
C5_Witness ==
    \E c \in Callers :
        /\ cres[c] \in {"rasA", "rasB"}
        /\ cpc[c] = "idle"
        /\ tiles[ctile[c]] = Done(cres[c])

\* C6: in both loaders, a tile whose fetch got a non-success response is never
\* marked Done: its entry stays Pending.
C6_BadStatusStaysPending ==
    \A i \in 1..Len(pipes) :
        pipes[i].status = "bad" => tiles[pipes[i].tile] = Pending

\* a task of t has failed in tokio::fs::read(..).unwrap()
ReadFailed(t) ==
    \E i \in PipesOf(t) : pipes[i].pc = "failed" /\ pipes[i].bytes = "-"

\* C7: for a tile whose cache file exists when the loader is constructed, no
\* network request is ever issued, a Done entry holds the raster decoded from
\* the file, and a requested tile whose file decodes becomes Done with that
\* raster (unless the worker could not start or reading the file failed).
C7_DiskHit ==
    /\ [](\A t \in Tiles :
            (kind = "caching" /\ disk0[t] # "none")
               => /\ NetFetches(t) = {}
                  /\ tiles[t].st = "Done" => tiles[t].img = Decode(disk0[t]))
    /\ \A t \in Tiles :
         (kind = "caching" /\ Decode(disk0[t]) # "err" /\ sent[t] > 0)
            ~> \/ tiles[t] = Done(Decode(disk0[t]))
               \/ wpc = "dead"
               \/ ReadFailed(t)

\* every response the source has given for t is a success with decodable bytes
SourceGood(t) ==
    \A i \in NetFetches(t) :
        pipes[i].status = "ok" /\ Decode(pipes[i].bytes) # "err"

\* C8: with an empty cache directory and a source that answers successfully
\* with decodable bytes, a tile is fetched once, and once its pipeline has
\* completed the entry is Done with the decoded raster and the cache file
\* holds exactly the bytes received.
C8_EndToEnd ==
    \A t \in Tiles :
        (kind = "caching" /\ disk0[t] = "none" /\ SourceGood(t))
           => /\ Cardinality(NetFetches(t)) <= 1
              /\ \A i \in Published(t) :
                    /\ tiles[t] = Done(Decode(pipes[i].bytes))
                    /\ disk[t] = pipes[i].bytes

\* C9: a cache path is written at most once per loader, and no task writes a
\* path while another task writes or reads it.
C9_WriteOnce ==
    \A t \in Tiles :
        /\ Cardinality(Writers(t)) <= 1
        /\ \A i, j \in PipesOf(t) :
              (i # j /\ pipes[i].pc = "writing")
                 => pipes[j].pc \notin {"writing", "read"}

Failed(p) == p.pc \in {"failed", "abandoned"}

\* C10: a permanent failure of a tile's pipeline (bad status, transport
\* error, decode failure, cache read or write error) never makes a call panic,
\* never poisons the table lock and never ends the worker, and the failing
\* step changes nothing but that pipeline (and what it had already written).
C10_FailureIsAbsorbed ==
    /\ []((\E i \in 1..Len(pipes) : Failed(pipes[i]))
            => /\ ~poisoned
               /\ ~closed
               /\ wpc # "dead"
               /\ \A c \in Callers : cpc[c] # "panicked" /\ cres[c] # "panic")
    /\ [][\A i \in 1..Len(pipes) :
            (~Failed(pipes[i]) /\ Failed(pipes'[i]))
               => /\ UNCHANGED <<tiles, lock, poisoned, queue, closed,
                                 workerVars, callerVars, sent, disk>>
                  /\ \A j \in 1..Len(pipes) : j # i => pipes'[j] = pipes[j]]_vars

\* after a pipeline has failed, another tile's pipeline has completed, the
\* worker is back in its receive loop and a call has returned a raster
C10_Witness ==
    \E i, j \in 1..Len(pipes) :
        /\ pipes[i].pc = "failed"
        /\ pipes[j].pc = "done"
        /\ pipes[i].tile # pipes[j].tile
        /\ i < j
        /\ wpc = "recv"
        /\ \E c \in Callers : cres[c] = pipes[j].img /\ ctile[c] = pipes[j].tile

\* C11: a failure to build the runtime or the HTTP client never shows up as a
\* failure of a tile() call made after the loader was constructed.
C11_NoPanicAfterConstruction ==
    \A c \in Callers : cpc[c] # "panicked" /\ cres[c] # "panic"

\* the task has inserted Fetch::Done
Inserted(p) == p.pc \in {"repaint", "done"}

\* the task has passed the write of the cache file
PastWrite(p) == p.pc \in {"decode", "publish", "repaint", "done"}

\* C19: in CachingTileLoader only a task that missed the disk and got a success
\* response writes the cache file, it has written the file before it decodes
\* or publishes, and a tile that is Done has its cache file present.
C19_PersistBeforePublish ==
    /\ [](kind = "caching"
            => /\ \A i \in 1..Len(pipes) :
                    /\ pipes[i].wrote => pipes[i].status = "ok"
                    /\ (pipes[i].status # "-" /\ PastWrite(pipes[i]))
                          => pipes[i].wrote /\ disk[pipes[i].tile] # "none"
               /\ \A t \in Tiles : tiles[t].st = "Done" => disk[t] # "none")
    /\ [][\A t \in Tiles :
            disk'[t] # disk[t]
               => \E i \in PipesOf(t) :
                     /\ pipes[i].pc \in {"write", "writing"}
                     /\ pipes[i].status = "ok"
                     /\ pipes'[i].wrote
                     /\ ~Inserted(pipes'[i])]_vars

\* a tile fetched from the network is Done and its file holds the bytes
\* received
C19_Witness ==
    \E i \in 1..Len(pipes) :
        /\ kind = "caching"
        /\ pipes[i].pc = "done"
        /\ pipes[i].wrote
        /\ tiles[pipes[i].tile] = Done(pipes[i].img)
        /\ disk[pipes[i].tile] = pipes[i].bytes

\* C20: a pipeline invokes the repaint signal at most once, only after its
\* insert of Done, never when it failed, and a pipeline that has run to its
\* end after publishing has invoked it exactly once.
C20_RepaintAfterPublish ==
    \A i \in 1..Len(pipes) :
        /\ pipes[i].repaints <= 1
        /\ pipes[i].repaints > 0 => Inserted(pipes[i])
        /\ Failed(pipes[i]) => pipes[i].repaints = 0
        /\ pipes[i].pc = "done" => pipes[i].repaints = 1

\* one pipeline has published and repainted, another one has failed
C20_Witness ==
    \E i, j \in 1..Len(pipes) :
        /\ pipes[i].pc = "done" /\ pipes[i].repaints = 1
        /\ pipes[j].pc = "failed"

\* C21: the set of tiles that have an entry in the table only grows, and a
\* tile that has an entry was put into the channel by a tile() call before.
C21_TableOnlyGrows ==
    /\ [][\A t \in Tiles : tiles[t].st # "None" => tiles'[t].st # "None"]_vars
    /\ [](\A t \in Tiles : tiles[t].st # "None" => sent[t] >= 1)

\* two tiles have entries, one of them Done: the entry of the first tile
\* has stayed while the second was requested and inserted
C21_Witness ==
    \E t, u \in Tiles :
        /\ t # u
        /\ tiles[t].st = "Done"
        /\ tiles[u].st # "None"

(***************************************************************************)
(* src/src/lib.rs: tile arithmetic.  Normalized coordinates (f64) are      *)
(* held in units of 1/NormDen and UV coordinates (f32) in units of         *)
(* 1/UvDen; the tile functions meet only dyadic rationals that both the    *)
(* floats and these integers represent exactly.                            *)
(***************************************************************************)

\* the deepest zoom level of the tiles the tile functions are applied to
MaxZ == 3

\* TileId.x and TileId.y are i32
MaxI32 == 2147483647
MinI32 == -MaxI32 - 1

\* the resolution of the normalized plane: 1 / 2^NormBits
NormBits == 27

NormDen == 2^NormBits
\* the resolution of UV coordinates: an f32 has a 24 bit significand
UvBits == 24

UvDen == 2^UvBits

\* Rust's integer / and %: the quotient is truncated toward zero
DivTrunc(a, b) == IF a >= 0 THEN a \div b ELSE -((-a) \div b)
RemTrunc(a, b) == a - b * DivTrunc(a, b)

TileId(x, y, z) == [x |-> x, y |-> y, z |-> z]

\* the tiles with 0 <= x, y < 2^z, z <= MaxZ
InRangeTiles ==
    {t \in [x : 0..(2^MaxZ - 1), y : 0..(2^MaxZ - 1), z : 0..MaxZ] :
        t.x < 2^t.z /\ t.y < 2^t.z}

\* Rect::from_min_max(Pos2::new(0.0, 0.0), Pos2::new(1.0, 1.0))
IdentityUv == [minx |-> 0, miny |-> 0, maxx |-> UvDen, maxy |-> UvDen]

\* the result of zoom_out_with_uv where z - 1 does not panic; in a build
\* without overflow checks 0u8 - 1 wraps to 255
ZoomOutWithUv(t, uv) ==
    LET new_tile == TileId(DivTrunc(t.x, 2), DivTrunc(t.y, 2), (t.z - 1) % 256)
        width    == uv.maxx - uv.minx
        height   == uv.maxy - uv.miny
        \* in half units: 0.0 or 0.5, and that plus 0.5
        uv_left  == IF RemTrunc(t.y, 2) = 0 THEN 0 ELSE 1
        uv_right == uv_left + 1
        uv_top   == IF RemTrunc(t.x, 2) = 0 THEN 0 ELSE 1
        uv_bottom == uv_top + 1
    IN  [tile |-> new_tile,
         uv   |-> [minx |-> uv.minx + (width * uv_top) \div 2,
                   miny |-> uv.miny + (height * uv_left) \div 2,
                   maxx |-> uv.minx + (width * uv_bottom) \div 2,
                   maxy |-> uv.miny + (height * uv_right) \div 2]]

TopLeftNormalized(t) ==
    [x |-> t.x * (NormDen \div 2^t.z), y |-> t.y * (NormDen \div 2^t.z)]

\* the mutation of bottom_right_normalized that forgets the + 1
BottomRightNoStep(t) ==
    [x |-> t.x * (NormDen \div 2^t.z), y |-> t.y * (NormDen \div 2^t.z)]

BottomRightNormalized(t) ==
    [x |-> (t.x + 1) * (NormDen \div 2^t.z),
     y |-> (t.y + 1) * (NormDen \div 2^t.z)]

(* ---------------- from_bounds ---------------- *)

\* the sample points reach GridSteps quarter turns from (lon 0, lat 0)
GridSteps == 3

\* the largest padding passed to from_bounds; Widget::ui passes 2
MaxPadding == 2

\* A geographic point is held by what the projection makes of it: lon in
\* units of 360 / NormDen degrees, and lat by its Mercator ordinate
\* asinh(tan(lat)) in units of 2 pi / NormDen.  The sample points lie a
\* whole number of quarter turns from (lon 0, lat 0).
GeoPoints ==
    [lon : {i * (NormDen \div 4) : i \in -GridSteps..GridSteps},
     lat : {i * (NormDen \div 4) : i \in -GridSteps..GridSteps}]

\* x = 0.5 + lon / 360, y = 0.5 - asinh(tan(lat)) / (2 pi), in units 1/NormDen
NormalizedMercator(p) ==
    [x |-> NormDen \div 2 + p.lon, y |-> NormDen \div 2 - p.lat]

\* lon = (x - 0.5) * 360, lat = atan(sinh((0.5 - y) * 2 pi))
ReverseNormalizedMercator(p) ==
    [lon |-> p.x - NormDen \div 2, lat |-> NormDen \div 2 - p.y]

\* a * b for b > 0, saturated to the range of i32
SatMul(a, b) ==
    IF a > MaxI32 \div b THEN MaxI32
    ELSE IF -a > MaxI32 \div b THEN MinI32
    ELSE a * b

\* (u / NormDen * 2^zoom) as i32: truncated toward zero, saturated
TileCoordAsI32(u, zoom) ==
    IF zoom >= NormBits THEN SatMul(u, 2^(zoom - NormBits))
    ELSE DivTrunc(u, 2^(NormBits - zoom))

FromPointAndZoom(p, zoom) ==
    LET projected == NormalizedMercator(p)
    IN  TileId(TileCoordAsI32(projected.x, zoom),
               TileCoordAsI32(projected.y, zoom), zoom)

\* 2u32.pow(zoom) as i32, for zoom <= 31
NAsI32(zoom) == IF zoom < 31 THEN 2^zoom ELSE MinI32

Min2(a, b) == IF a <= b THEN a ELSE b
Max2(a, b) == IF a >= b THEN a ELSE b

\* a - b and a + b on i32 (b >= 0): whether it overflows, and the wrapped sum
SubOverflows(a, b) == a < MinI32 + b
AddOverflows(a, b) == a > MaxI32 - b
WrappingSub(a, b) == IF SubOverflows(a, b) THEN MaxI32 - (b - (a - MinI32)) + 1 ELSE a - b
WrappingAdd(a, b) == IF AddOverflows(a, b) THEN MinI32 + (b - (MaxI32 - a)) - 1 ELSE a + b

\* the tiles pushed for x in x0 .. x0 + nx - 1 (outer loop) and
\* y in y0 .. y0 + ny - 1 (inner loop)
TileGrid(x0, nx, y0, ny, zoom) ==
    [i \in 1..(nx * ny) |-> TileId(x0 + ((i - 1) \div ny), y0 + ((i - 1) % ny), zoom)]

\* from_bounds(p1, p2, zoom, padding); checks = built with overflow checks.
\* The result carries the two corner tiles it got from from_point_and_zoom.
\* The loops visit x in lo_x..=hi_x and y in lo_y..=hi_y and skip what the
\* test of line 505 rejects, so they push the part of the (wrapped) range
\* inside 0..n-1, x outermost, and nothing when n as i32 is not positive.
FromBounds(p1, p2, zoom, padding, checks) ==
    LET left_x   == Min2(p1.lon, p2.lon)
        right_x  == Max2(p1.lon, p2.lon)
        top_y    == Max2(p1.lat, p2.lat)
        bottom_y == Min2(p1.lat, p2.lat)
        top_left_tile     == FromPointAndZoom([lon |-> left_x, lat |-> top_y], zoom)
        bottom_right_tile == FromPointAndZoom([lon |-> right_x, lat |-> bottom_y], zoom)
        n    == NAsI32(zoom)
        x_ov == SubOverflows(top_left_tile.x, padding)
                    \/ AddOverflows(bottom_right_tile.x, padding)
        y_ov == SubOverflows(top_left_tile.y, padding)
                    \/ AddOverflows(bottom_right_tile.y, padding)
        lo_x == WrappingSub(top_left_tile.x, padding)
        hi_x == WrappingAdd(bottom_right_tile.x, padding)
        lo_y == WrappingSub(top_left_tile.y, padding)
        hi_y == WrappingAdd(bottom_right_tile.y, padding)
        xs   == Max2(lo_x, 0)..Min2(hi_x, n - 1)
        ys   == Max2(lo_y, 0)..Min2(hi_y, n - 1)
        nx   == Cardinality(xs)
        ny   == Cardinality(ys)
        x0   == Max2(lo_x, 0)
        y0   == Max2(lo_y, 0)
        pushed == IF checks /\ (x_ov \/ (lo_x <= hi_x /\ y_ov))
                  THEN [panic |-> TRUE, tiles |-> <<>>]
                  ELSE IF n <= 0
                  THEN [panic |-> FALSE, tiles |-> <<>>]
                  ELSE [panic |-> FALSE, tiles |-> TileGrid(x0, nx, y0, ny, zoom)]
    IN  [panic |-> pushed.panic, tiles |-> pushed.tiles,
         top_left_tile |-> top_left_tile, bottom_right_tile |-> bottom_right_tile]

(* ---------------- the tile functions as a state machine ---------------- *)

\* the zoom levels from_bounds is called with: the levels whose tiles can
\* be enumerated, and 31, the first level where 2^zoom exceeds i32
BoxZooms == (0..MaxZ) \cup {31}

FromBoundsInputs ==
    {a \in [p1 : GeoPoints, p2 : GeoPoints, zoom : BoxZooms,
            padding : 0..MaxPadding, checks : BOOLEAN] :
        a.zoom > MaxZ => a.p1 = a.p2}

NoBounds == [done |-> FALSE, tl |-> [x |-> 0, y |-> 0], br |-> [x |-> 0, y |-> 0]]

\* one tile with nothing applied to it yet, or one from_bounds call not yet
\* made; the loader is idle
TileInit ==
    /\ LoaderInit
    /\ kind = "caching"
    /\ disk = [t \in Tiles |-> "none"]
    /\ \/ /\ op = "tile"
          /\ tile0 \in InRangeTiles
          /\ zo = [tile |-> tile0, uv |-> IdentityUv, k |-> 0]
          /\ nb = NoBounds
          /\ fb = "-"
          /\ st = "-" /\ stored = FALSE /\ reg = {} /\ fth = "-" /\ ev = "-"
       \/ /\ op = "from_bounds"
          /\ tile0 = "-"
          /\ zo = "-"
          /\ nb = "-"
          /\ \E a \in FromBoundsInputs :
                fb = [arg |-> a, called |-> FALSE, panic |-> FALSE, tiles |-> <<>>,
                      top_left_tile |-> TileId(0, 0, a.zoom),
                      bottom_right_tile |-> TileId(0, 0, a.zoom)]
          /\ st = "-" /\ stored = FALSE /\ reg = {} /\ fth = "-" /\ ev = "-"

\* one more zoom_out_with_uv, as find_texture_handle repeats it while z > 0
ZoomOut ==
    /\ op = "tile"
    /\ zo.tile.z > 0
    /\ LET r == ZoomOutWithUv(zo.tile, zo.uv)
       IN  zo' = [tile |-> r.tile, uv |-> r.uv, k |-> zo.k + 1]
    /\ UNCHANGED <<loaderVars, widgetVars, op, tile0, nb, fb>>

NormalizedBounds ==
    /\ op = "tile"
    /\ ~nb.done
    /\ nb' = [done |-> TRUE, tl |-> TopLeftNormalized(tile0),
              br |-> BottomRightNormalized(tile0)]
    /\ UNCHANGED <<loaderVars, widgetVars, op, tile0, zo, fb>>

FromBoundsCall ==
    /\ op = "from_bounds"
    /\ ~fb.called
    /\ LET r == FromBounds(fb.arg.p1, fb.arg.p2, fb.arg.zoom, fb.arg.padding,
                           fb.arg.checks)
       IN  fb' = [fb EXCEPT !.called = TRUE, !.panic = r.panic, !.tiles = r.tiles,
                            !.top_left_tile = r.top_left_tile,
                            !.bottom_right_tile = r.bottom_right_tile]
    /\ UNCHANGED <<loaderVars, widgetVars, op, tile0, zo, nb>>

TileNext ==
    \/ ZoomOut
    \/ NormalizedBounds
    \/ FromBoundsCall

TileSpec == TileInit /\ [][TileNext]_vars

(* ---------------- claims about the tile functions ---------------- *)

\* C12: k applications of zoom_out_with_uv to an in-range tile, starting
\* from the identity rectangle (1 <= k <= z), give the ancestor
\* (x div 2^k, y div 2^k, z - k) and the rectangle the tile occupies in it:
\* min = ((x mod 2^k) / 2^k, (y mod 2^k) / 2^k), width = height = 1 / 2^k.
C12_UvIsTheTilesRegion ==
    (op = "tile" /\ zo.k >= 1) =>
        LET d == 2^zo.k
            w == UvDen \div d
        IN  /\ zo.tile = TileId(tile0.x \div d, tile0.y \div d, tile0.z - zo.k)
            /\ zo.uv = [minx |-> (tile0.x % d) * w,
                        miny |-> (tile0.y % d) * w,
                        maxx |-> (tile0.x % d) * w + w,
                        maxy |-> (tile0.y % d) * w + w]

\* the tiles of the two corners of a from_bounds call, and the range the
\* result is to cover: the corners' range widened by the padding and cut
\* to 0 .. 2^zoom - 1
CornerTiles(a) == {FromPointAndZoom(a.p1, a.zoom), FromPointAndZoom(a.p2, a.zoom)}

LastIndex(zoom) == IF zoom < 31 THEN 2^zoom - 1 ELSE MaxI32

CoveredRange(lo, hi, a) ==
    Max2(lo - a.padding, 0)
        .. Min2(IF hi > MaxI32 - a.padding THEN MaxI32 ELSE hi + a.padding,
                LastIndex(a.zoom))

ExpectedTiles(a) ==
    LET c  == CornerTiles(a)
        xs == CoveredRange(CHOOSE v \in {t.x : t \in c} : \A t \in c : v <= t.x,
                           CHOOSE v \in {t.x : t \in c} : \A t \in c : v >= t.x, a)
        ys == CoveredRange(CHOOSE v \in {t.y : t \in c} : \A t \in c : v <= t.y,
                           CHOOSE v \in {t.y : t \in c} : \A t \in c : v >= t.y, a)
    IN  {TileId(x, y, a.zoom) : x \in xs, y \in ys}

\* C14: from_bounds returns exactly the tiles of the padded corner range
\* that lie in 0 <= x, y < 2^zoom, each once, in a fixed (x-major) order.
C14_FromBoundsIsTheClippedRange ==
    (op = "from_bounds" /\ fb.called) =>
        /\ ~fb.panic
        /\ {fb.tiles[i] : i \in 1..Len(fb.tiles)} = ExpectedTiles(fb.arg)
        /\ \A i \in 1..(Len(fb.tiles) - 1) :
              \/ fb.tiles[i].x < fb.tiles[i + 1].x
              \/ fb.tiles[i].x = fb.tiles[i + 1].x /\ fb.tiles[i].y < fb.tiles[i + 1].y

\* C15: the rectangle of an in-range tile has width and height 1 / 2^z and
\* the rectangles of a zoom level tile the unit square: the rectangle of
\* (x, y) starts at (x / 2^z, y / 2^z) and ends where that of (x+1, y+1)
\* starts.
C15_BoundsTileTheUnitSquare ==
    (op = "tile" /\ nb.done) =>
        LET w == NormDen \div 2^tile0.z
        IN  /\ nb.br.x - nb.tl.x = w
            /\ nb.br.y - nb.tl.y = w
            /\ nb.tl = [x |-> tile0.x * w, y |-> tile0.y * w]
            /\ nb.br = TopLeftNormalized(TileId(tile0.x + 1, tile0.y + 1, tile0.z))
            /\ nb.tl.x >= 0 /\ nb.tl.y >= 0
            /\ nb.br.x <= NormDen /\ nb.br.y <= NormDen

\* the bounds of the last tile of the deepest level have been computed
C15_Witness ==
    /\ op = "tile"
    /\ nb.done
    /\ tile0 = TileId(2^MaxZ - 1, 2^MaxZ - 1, MaxZ)

(***************************************************************************)
(* src/src/lib.rs: the widget.  zoom is held in hundredths of a level, a   *)
(* scroll delta dy in the units that make zoom += dy * 0.01 an integer     *)
(* step, and positions on the widget in fractions of its side.  The        *)
(* widget is square, so view_rect is the widget's rectangle.               *)
(***************************************************************************)

\* the widget's side in tiles: desired_tiles = major / pixel_tile_width
ViewTiles == 2

\* the number of frames (calls of Widget::ui) that are followed
MaxFrames == 2

\* state.zoom.clamp(0.75, 20.1)
ZoomMin == 75
ZoomMax == 2010

\* the padding Widget::ui passes to from_bounds
UiPadding == 2

\* pointer positions are given in quarters of the side, drags in halves
CursorDen == 4
DragDen == 2

Cursors == {[x |-> 0, y |-> 0], [x |-> 1, y |-> 3], [x |-> 4, y |-> 4]}
NoDrag == [x |-> 0, y |-> 0]
Drags == {NoDrag, [x |-> -1, y |-> 1]}
ScrollDeltas == {-100, 100}
LoaderAnswers == {"none", "some"}

\* EMapState::new()
EMapStateNew == [x |-> NormDen \div 2, y |-> NormDen \div 2, zoom |-> 100]

\* EMapState::with_initial_settings(lat, lon, zoom) for p = (lon, lat)
WithInitialSettings(p, zoom) ==
    [x |-> NormalizedMercator(p).x, y |-> NormalizedMercator(p).y,
     zoom |-> zoom * 100]

\* the states a widget starts from: the default, and a position given
\* with initial_position at the deepest level the zoom clamp keeps
StartStates ==
    {EMapStateNew,
     WithInitialSettings([lon |-> NormDen \div 8, lat |-> NormDen \div 8], 20)}

Clamp(v, lo, hi) == IF v < lo THEN lo ELSE IF v > hi THEN hi ELSE v

\* 2^(-c/100) in units of 1/32, rounded, for the fractional parts of zoom
\* that whole-level scroll steps and the two clamps produce
Pow2Frac(c) == CASE c = 0 -> 32 [] c = 10 -> 30 [] c = 75 -> 19

\* t_side = 1.0 / 2.0f64.powf(zoom)
TSide(zoom) == ((NormDen \div 2^(zoom \div 100)) \div 32) * Pow2Frac(zoom % 100)

\* norm_rect; geo::Rect::new orders the corners into min and max
NormRect(x, y, zoom) ==
    LET half == (ViewTiles * TSide(zoom)) \div 2
    IN  [minx |-> x - half, maxx |-> x + half, miny |-> y - half, maxy |-> y + half]

\* scale(v, 0, src_max, tgt_min, tgt_max) for v / src_max = num / den
Scale(num, den, tgt_min, tgt_max) == (num * (tgt_max - tgt_min)) \div den + tgt_min

\* scale_rect(pos, view_rect, r)
ScaleRect(pos, r) ==
    [x |-> Scale(pos.x, CursorDen, r.minx, r.maxx),
     y |-> Scale(pos.y, CursorDen, r.miny, r.maxy)]

\* the mutation of the scroll branch that moves the centre the wrong way
ZoomAtCursorReversed(s, pos, dy) ==
    LET pointer_norm == ScaleRect(pos, NormRect(s.x, s.y, s.zoom))
        zoom == Clamp(s.zoom + dy, ZoomMin, ZoomMax)
        new_pointer_norm == ScaleRect(pos, NormRect(s.x, s.y, zoom))
    IN  [x |-> s.x + (new_pointer_norm.x - pointer_norm.x),
         y |-> s.y + (new_pointer_norm.y - pointer_norm.y),
         zoom |-> zoom]

\* the scroll branch of Widget::ui
ZoomAtCursor(s, pos, dy) ==
    LET pointer_norm == ScaleRect(pos, NormRect(s.x, s.y, s.zoom))
        zoom == Clamp(s.zoom + dy, ZoomMin, ZoomMax)
        new_pointer_norm == ScaleRect(pos, NormRect(s.x, s.y, zoom))
    IN  [x |-> s.x + (pointer_norm.x - new_pointer_norm.x),
         y |-> s.y + (pointer_norm.y - new_pointer_norm.y),
         zoom |-> zoom]

\* the drag branch of Widget::ui; n_rect is the rectangle of the frame's start
Pan(s, n_rect, drag) ==
    LET x == Scale(drag.x, DragDen, 0, n_rect.maxx - n_rect.minx)
        y == Scale(drag.y, DragDen, 0, n_rect.maxy - n_rect.miny)
    IN  [x |-> Clamp(s.x - x, 0, NormDen),
         y |-> Clamp(s.y - y, 0, NormDen),
         zoom |-> s.zoom]

NoTexture == [some |-> FALSE, tile |-> TileId(0, 0, 0), uv |-> IdentityUv]

\* the loop of find_texture_handle: stop at zoom 0 without looking it up,
\* else take the registered texture of t, else go on with the parent of t
RECURSIVE AncestorWalk(_, _, _)
AncestorWalk(t, uv, registered) ==
    IF t.z = 0 THEN NoTexture
    ELSE IF t \in registered THEN [some |-> TRUE, tile |-> t, uv |-> uv]
    ELSE LET r == ZoomOutWithUv(t, uv)
         IN  AncestorWalk(r.tile, r.uv, registered)

\* The loop started from the tile (0, 0, 255) that a zoom-0 tile wraps to
\* in a build without overflow checks: it visits (0, 0, z) for z = 255 .. 1
\* and returns the first one registered.  Registered tiles have z <= 20, so
\* the f32 rectangle has been halved more than 150 times by then and is
\* the zero rectangle.
WrappedWalk(registered) ==
    LET hits == {t \in registered : t.x = 0 /\ t.y = 0 /\ t.z >= 1}
    IN  IF hits = {} THEN NoTexture
        ELSE [some |-> TRUE,
              tile |-> CHOOSE t \in hits : \A u \in hits : u.z <= t.z,
              uv   |-> [minx |-> 0, miny |-> 0, maxx |-> 0, maxy |-> 0]]

\* find_texture_handle(tile) with the loader answering ans: the tiles it
\* calls loader.tile for, whether it registers the tile's texture, whether
\* it calls zoom_out_with_uv on a zoom-0 tile, and what it returns where
\* that call does not panic
FindTextureHandle(tile, registered, ans) ==
    IF tile \in registered
    THEN [tile |-> tile, ans |-> "-", called |-> {},
          registers |-> FALSE, underflow |-> FALSE,
          found |-> [some |-> TRUE, tile |-> tile, uv |-> IdentityUv]]
    ELSE IF ans = "some"
    THEN [tile |-> tile, ans |-> ans, called |-> {tile},
          registers |-> TRUE, underflow |-> FALSE,
          found |-> [some |-> TRUE, tile |-> tile, uv |-> IdentityUv]]
    ELSE LET first == ZoomOutWithUv(tile, IdentityUv)
         IN  [tile |-> tile, ans |-> ans, called |-> {tile},
              registers |-> FALSE, underflow |-> (tile.z = 0),
              found |-> IF tile.z = 0 THEN WrappedWalk(registered)
                        ELSE AncestorWalk(first.tile, first.uv, registered)]

\* the arguments of a call that takes no position
NoArg == [p |-> [lon |-> 0, lat |-> 0], zoom |-> 0]

\* the widget before its first frame; ev.checks = built with overflow checks.
\* With nothing stored, a frame works on EMapState::new().
WidgetInit ==
    /\ LoaderInit
    /\ kind = "caching"
    /\ disk = [t \in Tiles |-> "none"]
    /\ op = "widget"
    /\ tile0 = "-" /\ zo = "-" /\ nb = "-" /\ fb = "-"
    /\ st \in StartStates
    /\ stored = (st # EMapStateNew)
    /\ reg = {}
    /\ fth = [underflow |-> FALSE, panic |-> FALSE, drawn |-> {}, looks |-> {}]
    /\ \E c \in BOOLEAN :
          ev = [n |-> 0, pos |-> [x |-> 0, y |-> 0], dy |-> 0, drag |-> NoDrag,
                checks |-> c, call |-> "-", arg |-> NoArg]

\* the find_texture_handle calls of a frame that asks for the tiles asked
Lookups(asked, registered, ans) ==
    {FindTextureHandle(t, registered, ans) : t \in asked}

\* one frame: Widget::ui with the pointer at pos, the scroll delta dy, the
\* drag delta drag, and a loader that answers ans for every tile asked
Ui(pos, dy, drag, ans) ==
    /\ op = "widget"
    /\ ev.n < MaxFrames
    /\ ~fth.panic
    /\ \E n_rect \in {NormRect(st.x, st.y, st.zoom)},
          scrolled \in {IF dy # 0 THEN ZoomAtCursor(st, pos, dy) ELSE st} :
       \E listed \in {FromBounds(
                         ReverseNormalizedMercator([x |-> n_rect.minx, y |-> n_rect.maxy]),
                         ReverseNormalizedMercator([x |-> n_rect.maxx, y |-> n_rect.miny]),
                         scrolled.zoom \div 100, UiPadding, ev.checks)} :
       \E looks \in {Lookups({listed.tiles[i] : i \in 1..Len(listed.tiles)}, reg, ans)} :
       \E under \in {\E l \in looks : l.underflow} :
          /\ ev' = [ev EXCEPT !.n = @ + 1, !.pos = pos, !.dy = dy, !.drag = drag,
                             !.call = "ui", !.arg = NoArg]
          /\ IF listed.panic \/ (ev.checks /\ under)
             THEN /\ fth' = [underflow |-> under, panic |-> TRUE, drawn |-> {},
                          looks |-> {}]
                  /\ UNCHANGED <<st, stored, reg>>
             ELSE /\ fth' = [underflow |-> under, panic |-> FALSE,
                             drawn |-> {l.found.tile : l \in {k \in looks : k.found.some}},
                             looks |-> looks]
                  /\ reg' = reg \cup {l.found.tile : l \in {k \in looks : k.registers}}
                  /\ st' = IF drag # NoDrag THEN Pan(scrolled, n_rect, drag)
                           ELSE scrolled
                  /\ stored' = TRUE
    /\ UNCHANGED <<loaderVars, op, tile0, zo, nb, fb>>

WidgetNext ==
    \E pos \in Cursors, dy \in ScrollDeltas \cup {0}, drag \in Drags,
       ans \in LoaderAnswers : Ui(pos, dy, drag, ans)

WidgetSpec == WidgetInit /\ [][WidgetNext]_vars

(* ---------------- claims about the widget ---------------- *)

\* C13: zoom_out_with_uv is never called on a tile with z = 0, whatever
\* zoom the viewport reaches and whatever the loader answers.
C13_NoZoomOutAtZoomZero ==
    op = "widget" => ~fth.underflow

\* C16: after any sequence of drags and scrolls the centre lies in
\* [0,1] x [0,1] and zoom in [0.75, 20.1].
C16_StateIsClamped ==
    op = "widget" =>
        /\ 0 <= st.x /\ st.x <= NormDen
        /\ 0 <= st.y /\ st.y <= NormDen
        /\ ZoomMin <= st.zoom /\ st.zoom <= ZoomMax

\* C17: a frame that scrolls (and does not drag) leaves the point of the
\* normalized plane under the pointer where it was, also when the new zoom
\* is clamped.
C17_CursorPointIsFixed ==
    [][(op = "widget" /\ ev'.n = ev.n + 1 /\ ev'.dy # 0 /\ ev'.drag = NoDrag
            /\ ~fth'.panic)
        => ScaleRect(ev'.pos, NormRect(st'.x, st'.y, st'.zoom))
             = ScaleRect(ev'.pos, NormRect(st.x, st.y, st.zoom))]_vars

\* a scroll whose zoom was clamped at the lower end has moved the centre
C17_Witness ==
    /\ op = "widget"
    /\ ev.n >= 1 /\ ev.dy = -100 /\ ev.drag = NoDrag
    /\ ~fth.panic
    /\ st.zoom = ZoomMin
    /\ st.x # NormDen \div 2

\* the ancestor of t that is k levels up, and the rectangle t occupies in it
Ancestor(t, k) == TileId(t.x \div 2^k, t.y \div 2^k, t.z - k)

RegionIn(t, k) ==
    LET w == UvDen \div 2^k
    IN  [minx |-> (t.x % 2^k) * w, miny |-> (t.y % 2^k) * w,
         maxx |-> (t.x % 2^k) * w + w, maxy |-> (t.y % 2^k) * w + w]

\* the levels, counted up from t, of the ancestors of t down to zoom 0 that
\* have a texture
AvailableLevels(t, registered) == {k \in 1..t.z : Ancestor(t, k) \in registered}

\* the nearest ancestor of t that has a texture, with the region of t in it
NearestAvailable(t, registered) ==
    LET ks == AvailableLevels(t, registered)
        k  == CHOOSE j \in ks : \A i \in ks : j <= i
    IN  IF ks = {} THEN NoTexture
        ELSE [some |-> TRUE, tile |-> Ancestor(t, k), uv |-> RegionIn(t, k)]

\* the ancestors of t the walk passes: up to the nearest one with a
\* texture, or all of them down to zoom 0
WalkedAncestors(t, registered) ==
    LET ks == AvailableLevels(t, registered)
    IN  {Ancestor(t, k) : k \in {j \in 1..t.z : \A i \in ks : j <= i}}

\* C22: when the loader returns None for a tile at zoom z >= 1,
\* find_texture_handle asks the loader for every ancestor it walks and
\* returns the nearest ancestor down to and including zoom 0 that has a
\* texture, with the rectangle the tile occupies in it; it returns nothing
\* only when no ancestor has one.
C22_FallbackToNearestAncestor ==
    (op = "widget" /\ ~fth.panic) =>
        \A l \in fth.looks :
            (l.ans = "none" /\ l.tile.z >= 1) =>
                /\ l.found = NearestAvailable(l.tile, reg)
                /\ WalkedAncestors(l.tile, reg) \subseteq l.called

\* the corners from_bounds makes of its two points
TopLeftPoint(a) ==
    [lon |-> Min2(a.p1.lon, a.p2.lon), lat |-> Max2(a.p1.lat, a.p2.lat)]

BottomRightPoint(a) ==
    [lon |-> Max2(a.p1.lon, a.p2.lon), lat |-> Min2(a.p1.lat, a.p2.lat)]

\* the componentwise floor of tile_coords(p, zoom), for zoom < NormBits
FloorOfTileCoords(p, zoom) ==
    LET projected == NormalizedMercator(p)
    IN  TileId(projected.x \div 2^(NormBits - zoom),
               projected.y \div 2^(NormBits - zoom), zoom)

\* C23: from_point_and_zoom returns the componentwise floor of
\* tile_coords(p, zoom), also for points whose tile coordinate is negative.
C23_TileOfPointIsFloor ==
    (op = "from_bounds" /\ fb.called /\ fb.arg.zoom <= MaxZ) =>
        /\ fb.top_left_tile = FloorOfTileCoords(TopLeftPoint(fb.arg), fb.arg.zoom)
        /\ fb.bottom_right_tile
             = FloorOfTileCoords(BottomRightPoint(fb.arg), fb.arg.zoom)

(* ---------------- a fresh Loader on the same cache directory ---------------- *)

\* how tile t failed for good in the running Loader: a task of t got as far
\* as load_from_memory(..).unwrap() and it panicked, or a task of t got a
\* response whose status.is_success() is false
HowFailed(t) ==
    IF \E i \in PipesOf(t) : pipes[i].pc = "failed" /\ pipes[i].why = "decode"
      THEN "decode"
      ELSE IF \E i \in PipesOf(t) : pipes[i].pc = "abandoned"
             THEN "status"
             ELSE "-"

\* the Loader is dropped (its worker, runtime and tasks with it) after a tile
\* has failed, and CachingTileLoader::new is called with the same directory:
\* an empty table, a new channel and worker, the files as they are. The
\* counts of calls go on, so that MaxCalls bounds the calls made to both.
Restart ==
    /\ kind = "caching"
    /\ ~old.dropped
    /\ \E t \in Tiles : HowFailed(t) # "-"
    /\ old' = [dropped |-> TRUE, failed |-> [t \in Tiles |-> HowFailed(t)]]
    /\ tiles' = [t \in Tiles |-> NoEntry]
    /\ lock' = 0
    /\ poisoned' = FALSE
    /\ queue' = <<>>
    /\ closed' = FALSE
    /\ wpc' = "start"
    /\ wtile' = 0
    /\ pipes' = <<>>
    /\ disk0' = disk
    /\ cpc' = [c \in Callers |-> "idle"]
    /\ ctile' = [c \in Callers |-> 0]
    /\ cres' = [c \in Callers |-> "-"]
    /\ sent' = [t \in Tiles |-> 0]
    /\ got' = [t \in Tiles |-> "-"]
    /\ UNCHANGED <<libVars, kind, disk, ncalls>>

RestartNext ==
    \/ Next
    \/ Restart

RestartSpec == Init /\ [][RestartNext]_vars

\* C24: a tile that failed for good in one Loader (bad HTTP status or decode
\* failure) is fetched from the network again by a fresh Loader on the same
\* cache directory: no task of that tile takes the disk-hit branch or works
\* on bytes that did not come from a response of its own.
C24_FreshLoaderFetchesAgain ==
    old.dropped =>
        \A t \in Tiles :
            old.failed[t] # "-" =>
                \A i \in PipesOf(t) :
                    /\ pipes[i].pc # "read"
                    /\ pipes[i].bytes # "-" => pipes[i].status # "-"

(* ---------------- the builder calls that position the widget ---------------- *)

\* the positions the application passes: (lon, lat) and the u8 zoom
PositionArgs ==
    {[p |-> [lon |-> NormDen \div 8, lat |-> NormDen \div 8], zoom |-> 20],
     [p |-> [lon |-> -(NormDen \div 4), lat |-> 0], zoom |-> 2]}

\* an initial_position that inserts the state whether or not one is stored
InitialPositionAlways(a) ==
    /\ op = "widget"
    /\ ~fth.panic
    /\ st' = WithInitialSettings(a.p, a.zoom)
    /\ reg' = {}
    /\ stored' = TRUE
    /\ ev' = [ev EXCEPT !.call = "initial_position", !.arg = a]
    /\ UNCHANGED <<loaderVars, op, tile0, zo, nb, fb, fth>>

\* EMap::initial_position(ctx, lat, lon, zoom): insert_temp of
\* with_initial_settings(..) only if get_temp::<EMapState>(id).is_none()
InitialPosition(a) ==
    /\ op = "widget"
    /\ ~fth.panic
    /\ IF stored
         THEN UNCHANGED <<st, reg, stored>>
         ELSE /\ st' = WithInitialSettings(a.p, a.zoom)
              /\ reg' = {}
              /\ stored' = TRUE
    /\ ev' = [ev EXCEPT !.call = "initial_position", !.arg = a]
    /\ UNCHANGED <<loaderVars, op, tile0, zo, nb, fb, fth>>

\* EMap::set_position(ctx, lat, lon, zoom): the stored state, or
\* EMapState::new() inserted now, gets x, y and zoom; its textures stay
SetPosition(a) ==
    /\ op = "widget"
    /\ ~fth.panic
    /\ st' = [x |-> NormalizedMercator(a.p).x, y |-> NormalizedMercator(a.p).y,
              zoom |-> a.zoom * 100]
    /\ stored' = TRUE
    /\ ev' = [ev EXCEPT !.call = "set_position", !.arg = a]
    /\ UNCHANGED <<loaderVars, op, tile0, zo, nb, fb, reg, fth>>

\* EMap::clear_state(ctx): d.remove::<EMapState>(id); the next load gives None
ClearState ==
    /\ op = "widget"
    /\ ~fth.panic
    /\ stored
    /\ st' = EMapStateNew
    /\ reg' = {}
    /\ stored' = FALSE
    /\ ev' = [ev EXCEPT !.call = "clear_state", !.arg = NoArg]
    /\ UNCHANGED <<loaderVars, op, tile0, zo, nb, fb, fth>>

\* a widget with nothing stored under its id
PositionInit == WidgetInit /\ ~stored

\* a frame between the calls: a scroll, a drag, both or neither, with the
\* pointer off the centre and a loader that has every tile
PositionFrame ==
    \E dy \in ScrollDeltas \cup {0}, drag \in Drags :
        Ui([x |-> 1, y |-> 3], dy, drag, "some")

PositionNext ==
    \/ PositionFrame
    \/ \E a \in PositionArgs : InitialPosition(a)
    \/ \E a \in PositionArgs : SetPosition(a)
    \/ ClearState

PositionSpec == PositionInit /\ [][PositionNext]_vars

\* C25: initial_position sets the viewport state only when none is stored
\* for the widget id; called when one is stored it leaves centre, zoom (and
\* textures) as they are, so what pan and zoom reached survives the call on
\* every frame. set_position always overwrites centre and zoom.
C25_InitialPositionOnlyOnce ==
    [][/\ (ev'.call = "initial_position" /\ stored) => UNCHANGED <<st, reg>>
       /\ (ev'.call = "initial_position" /\ ~stored)
             => /\ st' = WithInitialSettings(ev'.arg.p, ev'.arg.zoom)
                /\ stored'
       /\ (ev'.call = "set_position" /\ ev' # ev)
             => /\ st'.x = NormalizedMercator(ev'.arg.p).x
                /\ st'.y = NormalizedMercator(ev'.arg.p).y
                /\ st'.zoom = ev'.arg.zoom * 100
                /\ stored'
                /\ reg' = reg]_vars

\* initial_position was called after a frame had panned and zoomed away
\* from the position it names, and the state is where that frame left it
C25_Witness ==
    /\ op = "widget"
    /\ ev.call = "initial_position"
    /\ ev.n >= 1
    /\ stored
    /\ st # WithInitialSettings(ev.arg.p, ev.arg.zoom)
    /\ st \notin {WithInitialSettings(a.p, a.zoom) : a \in PositionArgs}
    /\ st # EMapStateNew
====
